---- MODULE Spec2Model ----
(***************************************************************************)
(* Model of the WAV container parser of AudioTest                          *)
(* (src/AudioTest/src/audio/sdl/sdlwavaudiodata.cpp): the SDLWAVAudioData  *)
(* constructor, OpenWavFile with its helpers, LoadAudioData and            *)
(* MoveAudioPos, run over byte streams built from known parameters.        *)
(***************************************************************************)
EXTENDS Integers, Sequences, FiniteSets, TLC

(***************************************************************************)
(* Bounds of the explored inputs.                                          *)
(***************************************************************************)
MaxDataLen == 7
MaxChannels == 3
MaxFactLen == 2
MaxCut == 46
MaxRead == 2
MaxOps == 2
RunFuel == 16

(***************************************************************************)
(* Program constants.                                                      *)
(***************************************************************************)
RIFF_HEX == 1179011410
WAVE_HEX == 1163280727
FACT_HEX == 1952670054
LIST_HEX == 1414744396
FMT_HEX == 544501094
DATA_HEX == 1635017060
PCM_CODE == 1
AUDIO_U8 == 8
AUDIO_S16 == 32784
AUDIO_S32 == 32800
SpecSamples == 4096

(***************************************************************************)
(* Little-endian encoding and decoding of fixed-width unsigned integers.   *)
(***************************************************************************)
RECURSIVE EncodeLE(_, _)
EncodeLE(v, width) ==
    IF width = 0 THEN <<>> ELSE <<v % 256>> \o EncodeLE(v \div 256, width - 1)

RECURSIVE DecodeLE(_)
DecodeLE(bytes) ==
    IF bytes = <<>> THEN 0 ELSE Head(bytes) + 256 * DecodeLE(Tail(bytes))

Min(a, b) == IF a < b THEN a ELSE b
Max(a, b) == IF a > b THEN a ELSE b

(***************************************************************************)
(* The byte source (SDL_RWops over a file): data, cursor, and whether the  *)
(* open succeeded (a failed SDL_RWFromFile yields NULL).                   *)
(***************************************************************************)
\* SDL_RWread(src, ptr, size, 1): copies the bytes that are available, moves
\* the cursor past them, and returns 1 only when a whole object was read.
SDL_RWread(src, size) ==
    LET avail == Max(0, Len(src.data) - src.pos)
        got   == Min(size, avail)
    IN  [src   |-> [src EXCEPT !.pos = src.pos + got],
         bytes |-> SubSeq(src.data, src.pos + 1, src.pos + got),
         n     |-> IF size > 0 /\ got = size THEN 1 ELSE 0]

\* SDL_RWseek(src, offset, RW_SEEK_CUR): a seek before the start fails and
\* leaves the cursor where it was; a seek past the end is allowed.
SDL_RWseek(src, offset) ==
    IF src.pos + offset < 0 THEN src ELSE [src EXCEPT !.pos = src.pos + offset]

\* result starts as 0; bytes a short read did deliver stay in its low bytes.
ReadLE32(src) ==
    LET r == SDL_RWread(src, 4)
    IN  [src |-> r.src, result |-> DecodeLE(r.bytes)]

ReadWavChunkHeader(src) ==
    LET h == ReadLE32(src)
        l == ReadLE32(h.src)
    IN  [src |-> l.src, header |-> h.result, length |-> l.result]

ReadWavChunkData(src, length) ==
    LET r == SDL_RWread(src, length)
    IN  [src |-> r.src, data |-> r.bytes,
         ret |-> IF r.n # 1 THEN -1 ELSE length]

\* SkipWavChunkData seeking one byte short of the chunk's payload
SkipWavChunkDataShort(src, length) ==
    IF length = 0 THEN src ELSE SDL_RWseek(src, length - 1)

SkipWavChunkData(src, length) ==
    IF length = 0 THEN src ELSE SDL_RWseek(src, length)

(***************************************************************************)
(* 32-bit two's-complement bit operations (\div and % round down, so a     *)
(* negative int shows its two's-complement bits).                          *)
(***************************************************************************)
RECURSIVE BitAndNot(_, _, _)
\* a & ~b over the low `bits` bits
BitAndNot(a, b, bits) ==
    IF bits = 0 THEN 0
    ELSE (a % 2) * (1 - (b % 2)) + 2 * BitAndNot(a \div 2, b \div 2, bits - 1)

\* (int) of a Uint32: values from 2^31 up wrap to negative
ToSint32(v) ==
    IF v \div 1073741824 >= 2 THEN ((v - 2147483647) - 1) - 2147483647 - 1 ELSE v

\* (Uint8) of a Uint16
ToUint8(v) == v % 256

SDL_AUDIO_BITSIZE(format) == format % 256

(***************************************************************************)
(* The format record WavFormat, overlaid on the chunk buffer.  A field     *)
(* that lies past the end of the allocated block is read from whatever     *)
(* follows it on the heap: env.heap gives those bytes (by offset parity).  *)
(***************************************************************************)
OffEncoding == 0
OffChannels == 2
OffFrequency == 4
OffBitsPerSample == 14

HeapByte(env, i) == env.heap[(i % 2) + 1]

FieldBytes(block, env, off, width) ==
    [k \in 1..width |->
        IF off + k <= Len(block) THEN block[off + k] ELSE HeapByte(env, off + k - 1)]

\* SDL_SwapLE16 / SDL_SwapLE32 of a field of *format
FormatField(block, env, off, width) == DecodeLE(FieldBytes(block, env, off, width))

\* the field is not wholly inside the chunk.length bytes that were allocated
FieldOutside(block, off, width) == off + width > Len(block)

(***************************************************************************)
(* Construction of input streams from known parameters.                    *)
(***************************************************************************)
JUNK_TAG == DecodeLE(<<74, 85, 78, 75>>)
BAD_RIFF_TAG == DecodeLE(<<82, 73, 70, 88>>)
BAD_WAVE_TAG == DecodeLE(<<87, 65, 86, 88>>)
FmtRecordLen == 16
FmtExtendedLen == FmtRecordLen + 2

NoChunk == [tag |-> 0, len |-> 0]

Filler(n, base) == [i \in 1..n |-> base + i]

Chunk(tag, len, payload) == EncodeLE(tag, 4) \o EncodeLE(len, 4) \o payload

AuxChunk(c) == IF c.tag = 0 THEN <<>> ELSE Chunk(c.tag, c.len, Filler(c.len, 100))

BlockSize(g) == (g.bits \div 8) * g.channels

FormatRecord(g) ==
    EncodeLE(g.encoding, 2) \o EncodeLE(g.channels, 2) \o EncodeLE(g.rate, 4)
    \o EncodeLE(g.rate * BlockSize(g), 4) \o EncodeLE(BlockSize(g), 2)
    \o EncodeLE(g.bits, 2) \o EncodeLE(0, 2)

FmtChunk(g) == Chunk(FMT_HEX, g.fmtLen, SubSeq(FormatRecord(g), 1, g.fmtLen))

DataChunk(g) == Chunk(DATA_HEX, g.dataLen, Filler(g.dataLen, 0))

Body(g) == AuxChunk(g.pre) \o FmtChunk(g) \o AuxChunk(g.mid) \o DataChunk(g)

Header(g) ==
    LET len == EncodeLE(Len(Body(g)) + 4, 4)
    IN  CASE g.hdr = "canonical" -> EncodeLE(RIFF_HEX, 4) \o len \o EncodeLE(WAVE_HEX, 4)
          [] g.hdr = "shifted"   -> len \o EncodeLE(WAVE_HEX, 4)
          [] g.hdr = "badRiff"   -> EncodeLE(BAD_RIFF_TAG, 4) \o len \o EncodeLE(WAVE_HEX, 4)
          [] g.hdr = "badWave"   -> EncodeLE(RIFF_HEX, 4) \o len \o EncodeLE(BAD_WAVE_TAG, 4)
          [] g.hdr = "lenIsWave" -> EncodeLE(RIFF_HEX, 4) \o EncodeLE(WAVE_HEX, 4)
                                    \o EncodeLE(WAVE_HEX, 4)

\* the stream: header and chunks, with the last g.cut bytes missing
BuildFile(g) ==
    LET full == Header(g) \o Body(g)
    IN  SubSeq(full, 1, Len(full) - Min(g.cut, Len(full)))

HeaderLen(g) == IF g.hdr = "shifted" THEN 8 ELSE 12
FmtPayloadPos(g) == HeaderLen(g) + Len(AuxChunk(g.pre)) + 8
DataHeaderPos(g) == FmtPayloadPos(g) + g.fmtLen + Len(AuxChunk(g.mid))
DataPayloadPos(g) == DataHeaderPos(g) + 8

(***************************************************************************)
(* OpenWavFile.  An activation p holds the stream it was handed (p.src is  *)
(* m_src), its locals, the caller's *spec and *length, the one heap block  *)
(* it allocates, and the returned pointer.  p.oob records that a field of  *)
(* *format was read from beyond the allocated block.                       *)
(***************************************************************************)
IndeterminateSpec ==
    [written |-> FALSE, freq |-> 0, format |-> 0, channels |-> 0, samples |-> 0]
ZeroedSpec ==
    [written |-> TRUE, freq |-> 0, format |-> 0, channels |-> 0, samples |-> 0]
IndeterminateLength == [written |-> FALSE, value |-> 0]

Activation(present, file) ==
    [pc |-> "LoadFileHeader",
     src |-> [open |-> present, data |-> file, pos |-> 0],
     RIFFchunk |-> 0, wavelen |-> 0, WAVEchunk |-> 0,
     encoding |-> 0, samplesize |-> 0,
     format |-> "NULL",
     chunk |-> [header |-> 0, length |-> 0, data |-> "NULL"],
     block |-> [state |-> "none", bytes |-> <<>>],
     error |-> FALSE,
     spec |-> IndeterminateSpec,
     length |-> IndeterminateLength,
     ret |-> "none",
     oob |-> FALSE]

\* error = true; goto done;
Fail(p) == [p EXCEPT !.error = TRUE, !.pc = "Done"]

\* LoadFileHeader without the missing-RIFF recovery: the third word is always
\* read as the WAVE tag
LoadFileHeaderNoRecovery(p) ==
    IF ~p.src.open THEN Fail(p)
    ELSE LET r1 == ReadLE32(p.src)
             r2 == ReadLE32(r1.src)
             r3 == ReadLE32(r2.src)
         IN  [p EXCEPT !.src = r3.src, !.RIFFchunk = r1.result,
                       !.wavelen = r2.result, !.WAVEchunk = r3.result,
                       !.pc = "CheckFileHeader"]

\* lines 139-168: the NULL check, the two header words, the missing-RIFF swap
LoadFileHeader(p) ==
    IF ~p.src.open THEN Fail(p)
    ELSE LET r1 == ReadLE32(p.src)
             r2 == ReadLE32(r1.src)
             r3 == ReadLE32(r2.src)
         IN  IF r2.result = WAVE_HEX
             THEN [p EXCEPT !.src = r2.src, !.WAVEchunk = r2.result,
                            !.wavelen = r1.result, !.RIFFchunk = RIFF_HEX,
                            !.pc = "CheckFileHeader"]
             ELSE [p EXCEPT !.src = r3.src, !.RIFFchunk = r1.result,
                            !.wavelen = r2.result, !.WAVEchunk = r3.result,
                            !.pc = "CheckFileHeader"]

\* lines 171-182
CheckFileHeader(p) ==
    IF (p.RIFFchunk # RIFF_HEX) \/ (p.WAVEchunk # WAVE_HEX) THEN Fail(p)
    ELSE [p EXCEPT !.chunk.data = "NULL", !.chunk.length = 0, !.pc = "FindFormatChunk"]

\* one pass of the do-while of lines 184-188
FindFormatChunk(p) ==
    LET h == ReadWavChunkHeader(SkipWavChunkData(p.src, p.chunk.length))
    IN  [p EXCEPT !.src = h.src, !.chunk.header = h.header, !.chunk.length = h.length,
                  !.pc = IF (h.header = FACT_HEX) \/ (h.header = LIST_HEX)
                         THEN "FindFormatChunk" ELSE "ReadFormatChunk"]

\* lines 190-203: malloc(chunk.length) may return NULL (out of memory, or a
\* zero-length request); a short read frees the block and fails
ReadFormatChunk(p, env) ==
    IF env.mallocNull THEN Fail(p)
    ELSE LET r == ReadWavChunkData(p.src, p.chunk.length)
         IN  IF r.ret = -1
             THEN Fail([p EXCEPT !.src = r.src, !.chunk.data = "block",
                                 !.block = [state |-> "freed", bytes |-> <<>>]])
             ELSE [p EXCEPT !.src = r.src, !.chunk.data = "block",
                            !.block = [state |-> "live", bytes |-> r.data],
                            !.pc = "CheckFormat"]

\* lines 208-222
CheckFormat(p, env) ==
    LET q == [p EXCEPT !.format = p.chunk.data]
    IN  IF q.chunk.header # FMT_HEX THEN Fail(q)
        ELSE LET e == [q EXCEPT
                         !.encoding = FormatField(q.block.bytes, env, OffEncoding, 2),
                         !.oob = q.oob \/ FieldOutside(q.block.bytes, OffEncoding, 2)]
             IN  IF e.encoding # PCM_CODE THEN Fail(e)
                 ELSE [e EXCEPT !.pc = "SetupSpec"]

\* SampleFormat with a case for 24-bit samples
SampleFormatWith24(bits) ==
    CASE bits = 8  -> AUDIO_U8
      [] bits = 16 -> AUDIO_S16
      [] bits = 24 -> AUDIO_S32
      [] bits = 32 -> AUDIO_S32
      [] OTHER     -> 0

\* lines 231-246: the sample format of a bit depth, 0 for the default case
SampleFormat(bits) ==
    CASE bits = 8  -> AUDIO_U8
      [] bits = 16 -> AUDIO_S16
      [] bits = 32 -> AUDIO_S32
      [] OTHER     -> 0

\* SetupSpec with the channel count stored before the bit depth is examined
SetupSpecChannelsFirst(p, env) ==
    LET bytes == p.block.bytes
        bits  == FormatField(bytes, env, OffBitsPerSample, 2)
        s1    == [ZeroedSpec EXCEPT
                    !.freq = ToSint32(FormatField(bytes, env, OffFrequency, 4)),
                    !.channels = ToUint8(FormatField(bytes, env, OffChannels, 2))]
        q     == [p EXCEPT !.spec = s1,
                           !.oob = p.oob \/ FieldOutside(bytes, OffFrequency, 4)
                                         \/ FieldOutside(bytes, OffChannels, 2)
                                         \/ FieldOutside(bytes, OffBitsPerSample, 2)]
    IN  IF SampleFormat(bits) = 0 THEN Fail(q)
        ELSE [q EXCEPT !.spec.format = SampleFormat(bits),
                       !.spec.samples = SpecSamples,
                       !.chunk.length = 0, !.chunk.data = "NULL",
                       !.pc = "FindDataChunk"]

\* lines 228-253
SetupSpec(p, env) ==
    LET bytes == p.block.bytes
        bits  == FormatField(bytes, env, OffBitsPerSample, 2)
        s1    == [ZeroedSpec EXCEPT
                    !.freq = ToSint32(FormatField(bytes, env, OffFrequency, 4))]
        q     == [p EXCEPT !.spec = s1,
                           !.oob = p.oob \/ FieldOutside(bytes, OffFrequency, 4)
                                         \/ FieldOutside(bytes, OffBitsPerSample, 2)]
    IN  IF SampleFormat(bits) = 0 THEN Fail(q)
        ELSE [q EXCEPT !.spec.format = SampleFormat(bits),
                       !.spec.channels = ToUint8(FormatField(bytes, env, OffChannels, 2)),
                       !.spec.samples = SpecSamples,
                       !.oob = q.oob \/ FieldOutside(bytes, OffChannels, 2),
                       !.chunk.length = 0, !.chunk.data = "NULL",
                       !.pc = "FindDataChunk"]

\* one pass of the do-while of lines 254-258
FindDataChunk(p) ==
    LET h == ReadWavChunkHeader(SkipWavChunkData(p.src, p.chunk.length))
    IN  [p EXCEPT !.src = h.src, !.chunk.header = h.header, !.chunk.length = h.length,
                  !.pc = IF h.header # DATA_HEX THEN "FindDataChunk" ELSE "Finish"]

\* lines 260-264
Finish(p) ==
    LET samplesize == (SDL_AUDIO_BITSIZE(p.spec.format) \div 8) * p.spec.channels
    IN  [p EXCEPT !.samplesize = samplesize,
                  !.length = [written |-> TRUE,
                              value |-> BitAndNot(p.chunk.length, samplesize - 1, 32)],
                  !.pc = "Done"]

\* lines 266-274: free(format), and the pointer handed back
Done(p) ==
    [p EXCEPT !.block = IF p.format = "NULL" THEN p.block
                        ELSE [state |-> "freed", bytes |-> <<>>],
              !.ret = IF p.error THEN "NULL" ELSE "spec",
              !.pc = "Returned"]

\* the block of OpenWavFile the activation is at
OpenWavFileStep(p, env) ==
    CASE p.pc = "LoadFileHeader"  -> LoadFileHeader(p)
      [] p.pc = "CheckFileHeader" -> CheckFileHeader(p)
      [] p.pc = "FindFormatChunk" -> FindFormatChunk(p)
      [] p.pc = "ReadFormatChunk" -> ReadFormatChunk(p, env)
      [] p.pc = "CheckFormat"     -> CheckFormat(p, env)
      [] p.pc = "SetupSpec"       -> SetupSpec(p, env)
      [] p.pc = "FindDataChunk"   -> FindDataChunk(p)
      [] p.pc = "Finish"          -> Finish(p)
      [] p.pc = "Done"            -> Done(p)
      [] OTHER                    -> p

\* OpenWavFile run to its return (or for RunFuel blocks, if it does not return)
RECURSIVE OpenWavFileRun(_, _, _)
OpenWavFileRun(p, env, fuel) ==
    IF p.pc = "Returned" \/ fuel = 0 THEN p
    ELSE OpenWavFileRun(OpenWavFileStep(p, env), env, fuel - 1)

(***************************************************************************)
(* The inputs explored: streams built from parameters, and the behaviour   *)
(* of the allocator and the heap around the chunk buffer.                  *)
(***************************************************************************)
Rates == {11025, 44100}
Depths == {8, 16, 32}
FactChunks == {[tag |-> FACT_HEX, len |-> n] : n \in 0..MaxFactLen}
PreChunks == {NoChunk, [tag |-> LIST_HEX, len |-> 1]} \cup FactChunks
MidChunks == {NoChunk, [tag |-> JUNK_TAG, len |-> 3]}

BaseInput ==
    [present |-> TRUE, hdr |-> "canonical", pre |-> NoChunk, fmtLen |-> FmtRecordLen,
     encoding |-> PCM_CODE, channels |-> 2, rate |-> 44100, bits |-> 16,
     mid |-> NoChunk, dataLen |-> MaxDataLen, cut |-> 0]

\* header, format chunk, data chunk: every channel count, depth and length
PlainInputs ==
    {[BaseInput EXCEPT !.hdr = h, !.channels = c, !.rate = r, !.bits = b, !.dataLen = d] :
        h \in {"canonical", "shifted"}, c \in 1..MaxChannels, r \in Rates,
        b \in Depths, d \in 0..MaxDataLen}

\* every header form, with chunks before and after the format chunk
LayoutInputs ==
    {[BaseInput EXCEPT !.hdr = h, !.pre = a, !.fmtLen = f, !.mid = m, !.dataLen = d] :
        h \in {"canonical", "shifted", "badRiff", "badWave", "lenIsWave"},
        a \in PreChunks \cup {[tag |-> JUNK_TAG, len |-> 0]},
        f \in {FmtRecordLen, FmtExtendedLen}, m \in MidChunks, d \in {0, MaxDataLen}}

\* format chunks of every declared length and with unsupported field values
FormatInputs ==
    {[BaseInput EXCEPT !.hdr = h, !.fmtLen = f, !.encoding = e, !.channels = c, !.bits = b] :
        h \in {"canonical", "shifted"}, f \in {0, 1, 2, 4, 14, 15, FmtRecordLen},
        e \in {PCM_CODE, 3}, c \in {0, 2, 258}, b \in Depths \cup {0, 24}}

\* streams that end early
CutInputs ==
    {[BaseInput EXCEPT !.hdr = h, !.mid = m, !.dataLen = d, !.cut = k] :
        h \in {"canonical", "shifted"}, m \in MidChunks, d \in {0, 2}, k \in 1..MaxCut}

Inputs ==
    PlainInputs \cup LayoutInputs \cup FormatInputs \cup CutInputs
    \cup {[BaseInput EXCEPT !.present = FALSE]}

NoHeap == <<0, 0>>
Heaps == {NoHeap, <<16, 0>>}
Envs == [mallocNull : BOOLEAN, heap : Heaps]

(***************************************************************************)
(* The program: an SDLWAVAudioData is constructed over the input stream    *)
(* (OpenWavFile advancing block by block), and, once constructed, serves   *)
(* LoadAudioData and MoveAudioPos calls.                                   *)
(***************************************************************************)
VARIABLES
    input,    \* the parameters the stream was built from
    env,      \* allocator and heap behaviour
    wav,      \* the OpenWavFile activation; wav.src is m_src
    object,   \* "constructing", "thrown" or "ready"
    played,   \* the LoadAudioData calls made since the cursor was last placed (by
              \* the constructor or MoveAudioPos): where the cursor was, the
              \* bytes asked for, the bytes put in the caller's buffer
    ops       \* number of calls made on the constructed object

vars == <<input, env, wav, object, played, ops>>

Init ==
    /\ input \in Inputs
    /\ env \in Envs
    /\ (env.heap # NoHeap => input.fmtLen < FmtRecordLen)
    /\ wav = Activation(input.present, BuildFile(input))
    /\ object = "constructing"
    /\ played = <<>>
    /\ ops = 0

Parsing(pc) ==
    /\ object = "constructing"
    /\ wav.pc = pc
    /\ UNCHANGED <<input, env, object, played, ops>>

DoLoadFileHeader == Parsing("LoadFileHeader") /\ wav' = LoadFileHeader(wav)

DoCheckFileHeader == Parsing("CheckFileHeader") /\ wav' = CheckFileHeader(wav)

DoFindFormatChunk == Parsing("FindFormatChunk") /\ wav' = FindFormatChunk(wav)

DoReadFormatChunk == Parsing("ReadFormatChunk") /\ wav' = ReadFormatChunk(wav, env)

DoCheckFormat == Parsing("CheckFormat") /\ wav' = CheckFormat(wav, env)

DoSetupSpec == Parsing("SetupSpec") /\ wav' = SetupSpec(wav, env)

DoFindDataChunk == Parsing("FindDataChunk") /\ wav' = FindDataChunk(wav)

DoFinish == Parsing("Finish") /\ wav' = Finish(wav)

DoDone == Parsing("Done") /\ wav' = Done(wav)

\* lines 46-53: the constructor throws when OpenWavFile returned NULL
Constructed ==
    /\ object = "constructing"
    /\ wav.pc = "Returned"
    /\ object' = IF wav.ret = "NULL" THEN "thrown" ELSE "ready"
    /\ UNCHANGED <<input, env, wav, played, ops>>

\* LoadAudioData reading through a copy of the stream, so that the cursor of
\* m_src stays where it was
LoadAudioDataNoAdvance(numBytes) ==
    /\ object = "ready"
    /\ ops < MaxOps
    /\ LET r == ReadWavChunkData(wav.src, numBytes)
       IN  played' = Append(played, [at |-> wav.src.pos, numBytes |-> numBytes,
                                     buffer |-> r.data])
    /\ ops' = ops + 1
    /\ UNCHANGED <<input, env, wav, object>>

\* lines 61-64
LoadAudioData(numBytes) ==
    /\ object = "ready"
    /\ ops < MaxOps
    /\ LET r == ReadWavChunkData(wav.src, numBytes)
       IN  /\ wav' = [wav EXCEPT !.src = r.src]
           /\ played' = Append(played, [at |-> wav.src.pos, numBytes |-> numBytes,
                                         buffer |-> r.data])
    /\ ops' = ops + 1
    /\ UNCHANGED <<input, env, object>>

\* lines 66-69
MoveAudioPos(amt) ==
    /\ object = "ready"
    /\ ops < MaxOps
    /\ wav' = [wav EXCEPT !.src = SDL_RWseek(wav.src, amt)]
    /\ played' = <<>>
    /\ ops' = ops + 1
    /\ UNCHANGED <<input, env, object>>

Next ==
    \/ DoLoadFileHeader
    \/ DoCheckFileHeader
    \/ DoFindFormatChunk
    \/ DoReadFormatChunk
    \/ DoCheckFormat
    \/ DoSetupSpec
    \/ DoFindDataChunk
    \/ DoFinish
    \/ DoDone
    \/ Constructed
    \/ \E numBytes \in 0..MaxRead : LoadAudioData(numBytes)
    \/ \E amt \in {-1, 1} : MoveAudioPos(amt)

Spec == Init /\ [][Next]_vars

(***************************************************************************)
(* Properties.                                                             *)
(***************************************************************************)
File == wav.src.data
Cursor == wav.src.pos
Returned == object = "constructing" /\ wav.pc = "Returned"
Succeeded == Returned /\ wav.ret = "spec"
Failed == Returned /\ wav.ret = "NULL"

\* the bytes of the stream at offsets at .. at+width-1, as far as it has them
Slice(at, width) == SubSeq(File, Max(0, at) + 1, Min(at + width, Len(File)))

\* the little-endian word of `width` bytes at offset `at` of the stream
WordAt(at, width) == DecodeLE(Slice(at, width))

RoundDown(n, block) == IF block = 0 THEN 0 ELSE (n \div block) * block
IsMultiple(n, block) == IF block = 0 THEN n = 0 ELSE n % block = 0

\* RIFF tag, length, WAVE tag, a 16-byte PCM 'fmt ' chunk, then the data chunk
WellFormed(g) ==
    /\ g.present /\ g.hdr = "canonical" /\ g.cut = 0
    /\ g.pre = NoChunk /\ g.mid = NoChunk /\ g.fmtLen = FmtRecordLen
    /\ g.encoding = PCM_CODE /\ g.bits \in Depths /\ g.channels >= 1

\* C1: every well-formed PCM stream built from {sampleRate, channels,
\* bitsPerSample, dataLength} parses successfully, and the descriptor has the
\* constructed rate, channel count and sample format, with the reported length
\* dataLength rounded down to a multiple of (bitsPerSample/8) * channels.
C1_WellFormedParses ==
    (WellFormed(input) /\ ~env.mallocNull /\ Returned) =>
        /\ wav.ret = "spec"
        /\ wav.spec.freq = input.rate
        /\ wav.spec.channels = input.channels
        /\ wav.spec.format = SampleFormat(input.bits)
        /\ wav.length.written
        /\ wav.length.value = RoundDown(input.dataLen, BlockSize(input))

\* C2: after every successful parse the reported payload length is a multiple
\* of (bitsPerSample/8 * channelCount) of the returned descriptor.
C2_LengthIsBlockMultiple ==
    Succeeded =>
        IsMultiple(wav.length.value,
                   (SDL_AUDIO_BITSIZE(wav.spec.format) \div 8) * wav.spec.channels)

\* C3: whenever OpenWavFile reports success the cursor is at the first payload
\* byte of the data chunk that supplied the length: the 8 bytes before it are
\* the 'data' tag and that length.
C3_CursorAtPayload ==
    Succeeded =>
        /\ Cursor >= 8
        /\ Cursor <= Len(File)
        /\ Slice(Cursor - 8, 4) = EncodeLE(DATA_HEX, 4)
        /\ WordAt(Cursor - 4, 4) = wav.chunk.length

\* the stream starts with a valid header: the WAVE tag as second word (the
\* form without the RIFF tag), or the RIFF tag followed, 8 bytes in, by WAVE
ValidContainer ==
    \/ WordAt(4, 4) = WAVE_HEX
    \/ (WordAt(0, 4) = RIFF_HEX /\ WordAt(8, 4) = WAVE_HEX)

\* C4: parsing never succeeds on an invalid file: success implies that the
\* stream's RIFF and WAVE tags are right (or it has the shifted-header form),
\* that the encoding in its fmt chunk is 1 and that its bitsPerSample is 8, 16
\* or 32 (each field taken from the stream, where the chunk holds it).
C4_SuccessImpliesValid ==
    Succeeded =>
        /\ ValidContainer
        /\ WordAt(FmtPayloadPos(input) - 8, 4) = FMT_HEX
        /\ (input.fmtLen >= OffEncoding + 2 =>
                WordAt(FmtPayloadPos(input) + OffEncoding, 2) = PCM_CODE)
        /\ (input.fmtLen >= OffBitsPerSample + 2 =>
                WordAt(FmtPayloadPos(input) + OffBitsPerSample, 2) \in Depths)

C4_Witness ==
    /\ Failed
    /\ ValidContainer
    /\ input.fmtLen = FmtRecordLen
    /\ WordAt(FmtPayloadPos(input) + OffEncoding, 2) = PCM_CODE
    /\ WordAt(FmtPayloadPos(input) + OffBitsPerSample, 2) = 24

\* C5 as stated: on every failing parse the caller's descriptor and length
\* output are unchanged from before the call (here for the streams whose fmt
\* chunk holds the whole format record).
C5_FailureLeavesOutputsUnchanged ==
    (Failed /\ input.fmtLen >= FmtRecordLen) =>
        (wav.spec = IndeterminateSpec /\ wav.length = IndeterminateLength)

\* C5 as amended: on every failing parse the caller receives NULL and the
\* length output is never written; the descriptor is unchanged unless the
\* failure is the unsupported bitsPerSample, and then it has been zeroed and
\* only freq (the decoded sample rate) has been filled.
C5_FailureWritesAtMostFreq ==
    Failed =>
        /\ wav.length = IndeterminateLength
        /\ \/ wav.spec = IndeterminateSpec
           \/ /\ wav.spec = [ZeroedSpec EXCEPT
                    !.freq = ToSint32(FormatField(Slice(FmtPayloadPos(input), input.fmtLen),
                                                  env, OffFrequency, 4))]
              /\ FormatField(Slice(FmtPayloadPos(input), input.fmtLen),
                             env, OffBitsPerSample, 2) \notin Depths

C5_Witness ==
    /\ Failed
    /\ input.bits = 24 /\ input.fmtLen = FmtRecordLen
    /\ wav.spec.written /\ wav.spec.freq = input.rate

\* C6: a read failure aborts the parse with failure: when the scan for the
\* data chunk comes to read a chunk header and the stream is exhausted (the
\* read returns no bytes), the parse ends and reports failure instead of
\* scanning on.
C6_ExhaustedScanFails ==
    [][(/\ object = "constructing"
        /\ wav.pc = "FindDataChunk"
        /\ Cursor + wav.chunk.length >= Len(File))
       => (wav'.pc = "Done" /\ wav'.error)]_vars

\* the scan for the data chunk has reached a state that a further pass leaves
\* as it is: the loop of lines 254-258 no longer ends
ScanStuck == object = "constructing" /\ wav.pc = "FindDataChunk" /\ FindDataChunk(wav) = wav

\* the stream with its first n bytes removed
Drop(file, n) == SubSeq(file, n + 1, Len(file))

\* the stream with a 'fact' chunk of n payload bytes inserted at offset `at`
InsertFact(file, at, n) ==
    SubSeq(file, 1, at) \o Chunk(FACT_HEX, n, Filler(n, 100)) \o Drop(file, at)

\* OpenWavFile run on another stream, in environment e
ParseIn(file, e) == OpenWavFileRun(Activation(TRUE, file), e, RunFuel)

\* the environments another parse is compared in: the allocator behaves as it
\* did here, and what lies past the chunk buffer is arbitrary, unless this
\* parse read it (then it is the same)
AlikeEnvs == {e \in Envs : e.mallocNull = env.mallocNull /\ (wav.oob => e.heap = env.heap)}

\* C7: for a file that starts with the RIFF tag and parses successfully, the
\* file without its first 4 bytes yields the same outcome: success, the same
\* descriptor and length, and the cursor at the same payload byte (4 less).
C7_MissingRiffParsesAlike ==
    (Succeeded /\ WordAt(0, 4) = RIFF_HEX) =>
        \A e \in AlikeEnvs :
            LET q == ParseIn(Drop(File, 4), e)
            IN  /\ q.pc = "Returned"
                /\ q.ret = "spec"
                /\ q.spec = wav.spec
                /\ q.length = wav.length
                /\ q.src.pos = Cursor - 4

C7_Witness ==
    /\ Succeeded /\ WordAt(0, 4) = RIFF_HEX
    /\ WordAt(4, 4) # WAVE_HEX
    /\ ParseIn(Drop(File, 4), env).WAVEchunk = WAVE_HEX
    /\ ParseIn(Drop(File, 4), env).wavelen = WordAt(4, 4)

\* C8: a 'fact' chunk of any length, zero included, inserted between the
\* header and the chunk that follows it does not change the result: the same
\* outcome and, on success, the same descriptor and length, with the cursor at
\* the first payload byte of the same data chunk.
C8_FactChunkIsSkipped ==
    (Returned /\ input.present /\ Len(File) >= HeaderLen(input)) =>
        \A n \in 0..MaxFactLen, e \in AlikeEnvs :
            LET q == ParseIn(InsertFact(File, HeaderLen(input), n), e)
            IN  /\ q.pc = "Returned"
                /\ q.ret = wav.ret
                /\ (wav.ret = "spec" =>
                        /\ q.spec = wav.spec
                        /\ q.length = wav.length
                        /\ q.src.pos = Cursor + 8 + n)

C8_Witness ==
    /\ Succeeded /\ input.pre = NoChunk /\ MaxFactLen >= 1
    /\ ParseIn(InsertFact(File, HeaderLen(input), MaxFactLen), env).src.pos
            = Cursor + 8 + MaxFactLen
    /\ ParseIn(InsertFact(File, HeaderLen(input), 0), env).src.pos = Cursor + 8

\* C9: two consecutive LoadAudioData calls of n1 then n2 bytes deliver, in
\* order, the bytes a single call of n1+n2 bytes from the same cursor
\* delivers, and leave the cursor where it leaves it (n1+n2 bytes available).
C9_SplitReadsAgree ==
    (object = "ready" /\ Len(played) >= 2) =>
        LET a == played[Len(played) - 1]
            b == played[Len(played)]
            single == ReadWavChunkData([wav.src EXCEPT !.pos = a.at],
                                       a.numBytes + b.numBytes)
        IN  (a.at + a.numBytes + b.numBytes <= Len(File)) =>
                /\ a.buffer \o b.buffer = single.data
                /\ Cursor = single.src.pos

C9_Witness ==
    /\ object = "ready" /\ Len(played) = 2
    /\ played[1].numBytes >= 1 /\ played[2].numBytes >= 1
    /\ played[1].at + played[1].numBytes + played[2].numBytes <= Len(File)
    /\ played[1].buffer # played[2].buffer

\* C10: every field OpenWavFile reads from the format record lies inside the
\* chunk.length bytes allocated and read for it, whatever the declared length.
C10_FormatReadsInBounds == ~wav.oob

====
